---- MODULE Spec2Model ----
(***************************************************************************)
(* send2ereader: the key/session registry (creation, renewal, two-tier     *)
(* expiry, cascading deletion) and the file ingestion pipeline of          *)
(* src/index.js, as a state machine.  Time is in milliseconds, as the      *)
(* arguments of setTimeout are.                                            *)
(***************************************************************************)
EXTENDS Integers, Sequences, FiniteSets, TLC

(* ------------------------------ bounds --------------------------------- *)
\* sessions ever created
MaxSessions == 2
\* upload requests ever started
MaxUploads == 1

(* --------------------------- program constants ------------------------- *)
expireDelay == 10 * 60
maxExpireDuration == 1 * 60 * 60

TYPE_EPUB == "application/epub+zip"
TYPE_MOBI == "application/x-mobipocket-ebook"
OCTET_STREAM == "application/octet-stream"

allowedTypes ==
  { TYPE_EPUB, TYPE_MOBI, "application/pdf", "application/vnd.comicbook+zip",
    "application/vnd.comicbook-rar", "text/html", "text/plain",
    "application/zip", "application/x-rar-compressed" }
allowedExtensions == { "epub", "mobi", "pdf", "cbz", "cbr", "html", "txt" }

keyChars ==
  << "2", "3", "4", "5", "6", "7", "8", "9", "A", "C", "D", "E", "F", "G", "H",
     "J", "K", "L", "M", "N", "P", "R", "S", "T", "U", "V", "W", "X", "Y", "Z" >>
keyLength == 4

(* ------------------------------ strings -------------------------------- *)
\* Keys and key-carrying request fields are sequences of one-character
\* strings; the absent field is the empty sequence.
lowerLetters ==
  << "a", "c", "d", "e", "f", "g", "h", "j", "k", "l", "m", "n", "p", "r", "s",
     "t", "u", "v", "w", "x", "y", "z" >>
upperLetters ==
  << "A", "C", "D", "E", "F", "G", "H", "J", "K", "L", "M", "N", "P", "R", "S",
     "T", "U", "V", "W", "X", "Y", "Z" >>

UpperChar(c) ==
  IF \E i \in 1..Len(lowerLetters) : lowerLetters[i] = c
    THEN upperLetters[CHOOSE i \in 1..Len(lowerLetters) : lowerLetters[i] = c]
    ELSE c

toUpperCase(s) == [i \in 1..Len(s) |-> UpperChar(s[i])]

RECURSIVE trimStart(_)
trimStart(s) ==
  IF s # << >> /\ Head(s) = " " THEN trimStart(Tail(s)) ELSE s

RECURSIVE trimEnd(_)
trimEnd(s) ==
  IF s # << >> /\ s[Len(s)] = " " THEN trimEnd(SubSeq(s, 1, Len(s) - 1)) ELSE s

trim(s) == trimEnd(trimStart(s))

RECURSIVE Pow(_, _)
Pow(b, e) == IF e = 0 THEN 1 ELSE b * Pow(b, e - 1)

choices == Pow(Len(keyChars), keyLength)

\* rnd.toString(30).padStart(4, "0"), each base-30 digit mapped to keyChars
randomKey(rnd) ==
  [i \in 1..keyLength |->
     keyChars[((rnd \div Pow(Len(keyChars), keyLength - i)) % Len(keyChars)) + 1]]

(* ----------------------------- file names ------------------------------ *)
\* A file name is [base, ext]: the text before the first dot and the
\* dot-separated parts after it ("a.kepub.epub" is base "a", ext
\* <<"kepub", "epub">>).  A storage path has the same shape; its base is the
\* unique name multer gives the staged file.
LowerWord(w) ==
  CASE w = "EPUB" -> "epub"
    [] w = "KEPUB" -> "kepub"
    [] w = "PDF" -> "pdf"
    [] OTHER -> w

\* extname(name).toLowerCase().substring(1)
extname(name) ==
  IF name.ext = << >> THEN "" ELSE LowerWord(name.ext[Len(name.ext)])

\* s.replace(/\.epub$/i, "." + to)
replaceEpub(name, to) ==
  LET n == Len(name.ext) IN
  IF n >= 1 /\ LowerWord(name.ext[n]) = "epub"
    THEN [name EXCEPT !.ext = SubSeq(name.ext, 1, n - 1) \o to]
    ELSE name

\* s.replace(/\.kepub\.epub$/i, ".epub")
replaceKepubEpub(name) ==
  LET n == Len(name.ext) IN
  IF n >= 2 /\ LowerWord(name.ext[n]) = "epub" /\ LowerWord(name.ext[n - 1]) = "kepub"
    THEN [name EXCEPT !.ext = SubSeq(name.ext, 1, n - 2) \o << "epub" >>]
    ELSE name

\* s.replace(/\.pdf$/i, ".pdf")
replacePdf(name) ==
  LET n == Len(name.ext) IN
  IF n >= 1 /\ LowerWord(name.ext[n]) = "pdf"
    THEN [name EXCEPT !.ext = SubSeq(name.ext, 1, n - 1) \o << "pdf" >>]
    ELSE name

\* transliterate(): non-ASCII letters of the base to ASCII ("#" stands for
\* a non-ASCII letter)
transliterate(base) ==
  CASE base = "b#k" -> "bok"
    [] OTHER -> base

doTransliterate(name) == [name EXCEPT !.base = transliterate(name.base)]

\* filename.replace(/[^\.\w\-"'\(\)]/g, "_")
kindleSafe(name) ==
  [name EXCEPT !.base = CASE name.base = "my book" -> "my_book"
                          [] name.base = "b#k" -> "b_k"
                          [] OTHER -> name.base]

\* A device identity is the sequence of the words of the User-Agent header.
includes(agent, word) == \E i \in 1..Len(agent) : agent[i] = word

(* ------------------------------- state --------------------------------- *)
VARIABLES
  keys,      \* app.context.keys: key -> index of its session object
  sessions,  \* every session object ever created, in creation order
  timers,    \* the pending setTimeout callbacks
  now,       \* the clock, in milliseconds
  disk,      \* the paths present in the uploads directory
  unlinked,  \* the paths fs.unlink has been called on
  uploads,   \* the POST /upload requests in flight, by request number
  nUploads,  \* the number of POST /upload requests started
  last       \* the step just taken and the response it produced

vars == << keys, sessions, timers, now, disk, unlinked, uploads, nUploads, last >>

NoTimer == [kind |-> "none", key |-> << >>, sid |-> 0, due |-> 0]

\* the part of the state removeKey and expireKey work on
Store == [keys |-> keys, sessions |-> sessions, timers |-> timers,
          disk |-> disk, unlinked |-> unlinked]

Commit(st) ==
  /\ keys' = st.keys
  /\ sessions' = st.sessions
  /\ timers' = st.timers
  /\ disk' = st.disk
  /\ unlinked' = st.unlinked

has(reg, key) == key \in DOMAIN reg

Paths(files) == { files[i].path : i \in 1..Len(files) }

\* fs.unlink(path, ...)
unlink(st, paths) ==
  [st EXCEPT !.disk = @ \ paths, !.unlinked = @ \cup paths]

removeKey(st, key) ==
  IF ~ has(st.keys, key) THEN st
  ELSE
    LET sid == st.keys[key]
        info == st.sessions[sid]
        cleared == [st EXCEPT !.timers = @ \ { info.timer }]
        deleted == unlink(cleared, Paths(info.files))
    IN  [deleted EXCEPT !.sessions[sid].files = << >>,
                        !.keys = [k \in (DOMAIN st.keys) \ { key } |-> st.keys[k]]]

\* a slip: the idle timer is given the hard cap's delay
expireKeyHardCapDelay(st, key, t) ==
  LET sid == IF has(st.keys, key) THEN st.keys[key] ELSE 0
      timer == [kind |-> "idle", key |-> key, sid |-> sid,
                due |-> t + maxExpireDuration * 1000]
  IN  IF sid # 0
        THEN [st EXCEPT !.timers = (@ \ { st.sessions[sid].timer }) \cup { timer },
                        !.sessions[sid].timer = timer,
                        !.sessions[sid].alive = t]
        ELSE [st EXCEPT !.timers = @ \cup { timer }]

\* a slip: the pending idle timer is not cleared
expireKeyKeepsPending(st, key, t) ==
  LET sid == IF has(st.keys, key) THEN st.keys[key] ELSE 0
      timer == [kind |-> "idle", key |-> key, sid |-> sid,
                due |-> t + expireDelay * 1000]
  IN  IF sid # 0
        THEN [st EXCEPT !.timers = @ \cup { timer },
                        !.sessions[sid].timer = timer,
                        !.sessions[sid].alive = t]
        ELSE [st EXCEPT !.timers = @ \cup { timer }]

expireKey(st, key, t) ==
  LET sid == IF has(st.keys, key) THEN st.keys[key] ELSE 0
      timer == [kind |-> "idle", key |-> key, sid |-> sid,
                due |-> t + expireDelay * 1000]
  IN  IF sid # 0
        THEN [st EXCEPT !.timers = (@ \ { st.sessions[sid].timer }) \cup { timer },
                        !.sessions[sid].timer = timer,
                        !.sessions[sid].alive = t]
        ELSE [st EXCEPT !.timers = @ \cup { timer }]

Init ==
  /\ keys = << >>
  /\ sessions = << >>
  /\ timers = { }
  /\ now = 0
  /\ disk = { }
  /\ unlinked = { }
  /\ uploads = << >>
  /\ nUploads = 0
  /\ last = [op |-> "init"]

(* ---------------------------- POST /generate --------------------------- *)
\* a slip: the loop ends at the first key, registered or not
generateLoopNoCheck(reg, draws, attempts) ==
  [result |-> "key", key |-> randomKey(Head(draws)), attempts |-> attempts + 1,
   left |-> Len(draws) - 1]

\* a slip: the loop gives up one attempt later
RECURSIVE generateLoopLateBound(_, _, _)
generateLoopLateBound(reg, draws, attempts) ==
  LET key == randomKey(Head(draws)) IN
  IF attempts > Cardinality(DOMAIN reg) + 1
    THEN [result |-> "error", key |-> key, attempts |-> attempts, left |-> Len(draws) - 1]
  ELSE IF has(reg, key)
    THEN IF Len(draws) > 1
           THEN generateLoopLateBound(reg, Tail(draws), attempts + 1)
           ELSE [result |-> "more", key |-> key, attempts |-> attempts + 1, left |-> 0]
  ELSE [result |-> "key", key |-> key, attempts |-> attempts + 1, left |-> Len(draws) - 1]

\* The do/while loop of the handler over the keys Math.random() yields:
\* "more" when the draws given run out before the loop ends.
RECURSIVE generateLoop(_, _, _)
generateLoop(reg, draws, attempts) ==
  LET key == randomKey(Head(draws)) IN
  IF attempts > Cardinality(DOMAIN reg)
    THEN [result |-> "error", key |-> key, attempts |-> attempts, left |-> Len(draws) - 1]
  ELSE IF has(reg, key)
    THEN IF Len(draws) > 1
           THEN generateLoop(reg, Tail(draws), attempts + 1)
           ELSE [result |-> "more", key |-> key, attempts |-> attempts + 1, left |-> 0]
  ELSE [result |-> "key", key |-> key, attempts |-> attempts + 1, left |-> Len(draws) - 1]

Generate(agent, draws) ==
  LET g == generateLoop(keys, draws, 0) IN
  /\ g.result # "more"
  /\ g.left = 0
  /\ IF g.result = "error"
       THEN /\ UNCHANGED << keys, sessions, timers >>
            /\ last' = [op |-> "generate", status |-> 200, body |-> << "error" >>,
                        attempts |-> g.attempts]
       ELSE
         LET sid == Len(sessions) + 1
             info == [created |-> now, agent |-> agent, files |-> << >>,
                      urls |-> << >>, timer |-> NoTimer, alive |-> now]
             set == [Store EXCEPT
                       !.keys = [k \in (DOMAIN keys) \cup { g.key } |->
                                   IF k = g.key THEN sid ELSE keys[k]],
                       !.sessions = Append(sessions, info)]
             st == expireKey(set, g.key, now)
             cap == [kind |-> "cap", key |-> g.key, sid |-> sid,
                     due |-> now + maxExpireDuration * 1000]
         IN  /\ keys' = st.keys
             /\ sessions' = st.sessions
             /\ timers' = st.timers \cup { cap }
             /\ last' = [op |-> "generate", status |-> 200, body |-> g.key,
                         attempts |-> g.attempts]
  /\ UNCHANGED << now, disk, unlinked, uploads, nUploads >>

(* ------------------------------- timers -------------------------------- *)
\* setTimeout(removeKey, expireDelay * 1000, key) fires
IdleTimerFires(t) ==
  /\ t \in timers /\ t.kind = "idle" /\ t.due <= now
  /\ Commit(removeKey([Store EXCEPT !.timers = @ \ { t }], t.key))
  /\ last' = [op |-> "idleTimer"]
  /\ UNCHANGED << now, uploads, nUploads >>

\* a slip: the registered session is compared with a copy of `info`
hardCapComparesCopy(st, key, sid) ==
  IF has(st.keys, key) /\ st.keys[key] = Len(st.sessions) + 1
    THEN removeKey(st, key) ELSE st

\* a slip: the callback removes whatever session the key is registered to
hardCapUnguarded(st, key, sid) == removeKey(st, key)

\* line 200: if (ctx.keys.get(key) === info) removeKey(key)
hardCap(st, key, sid) ==
  IF has(st.keys, key) /\ st.keys[key] = sid THEN removeKey(st, key) ELSE st

\* the hard-cap callback of /generate fires
CapTimerFires(t) ==
  /\ t \in timers /\ t.kind = "cap" /\ t.due <= now
  /\ Commit(hardCap([Store EXCEPT !.timers = @ \ { t }], t.key, t.sid))
  /\ last' = [op |-> "capTimer"]
  /\ UNCHANGED << now, uploads, nUploads >>

\* the clock advances by idle windows
TickStep == expireDelay * 1000

Min(a, b) == IF a <= b THEN a ELSE b

\* Time passes, up to the next deadline: a timer that is due fires first.
\* The clock stops at `horizon`.
Tick(horizon) ==
  /\ \A t \in timers : t.due > now
  /\ now < horizon
  /\ LET dues == { t.due : t \in timers }
         next == IF dues = { } THEN now + TickStep
                 ELSE Min(now + TickStep, CHOOSE d \in dues : \A e \in dues : d <= e)
     IN  now' = Min(next, horizon)
  /\ last' = [op |-> "tick"]
  /\ UNCHANGED << keys, sessions, timers, disk, unlinked, uploads, nUploads >>

(* --------------------------- GET /status/:key -------------------------- *)
\* `last` is the step just taken and its response: the status, and the body
\* where the body says more than the status.
Status(rawKey, agent) ==
  LET key == toUpperCase(rawKey) IN
  /\ IF ~ has(keys, key)
       THEN /\ UNCHANGED << keys, sessions, timers, disk, unlinked >>
            /\ last' = [op |-> "status", status |-> 404]
     ELSE IF sessions[keys[key]].agent # agent
       THEN /\ UNCHANGED << keys, sessions, timers, disk, unlinked >>
            /\ last' = [op |-> "status", status |-> 403]
     ELSE
       LET st == expireKey(Store, key, now)
           info == st.sessions[st.keys[key]]
       IN  /\ Commit(st)
           /\ last' = [op |-> "status", status |-> 200, alive |-> info.alive,
                       files |-> [i \in 1..Len(info.files) |-> info.files[i].name],
                       urls |-> info.urls]
  /\ UNCHANGED << now, uploads, nUploads >>

(* ------------------------ GET /:filename?key=... ----------------------- *)
\* info.files.find / findIndex by display name: 0 when there is none
findIndex(files, name) ==
  IF \E i \in 1..Len(files) : files[i].name = name
    THEN CHOOSE i \in 1..Len(files) :
           files[i].name = name /\ \A j \in 1..(i - 1) : files[j].name # name
    ELSE 0

\* a slip: the session is renewed before the device identity is compared
downloadFileRenewsFirst(rawKey, name, agent) ==
  LET key == IF rawKey # << >> THEN toUpperCase(rawKey) ELSE << >>
      idx == IF has(keys, key) THEN findIndex(sessions[keys[key]].files, name) ELSE 0
  IN
  /\ IF key = << >> \/ ~ has(keys, key) \/ idx = 0
       THEN /\ UNCHANGED << keys, sessions, timers, disk, unlinked >>
            /\ last' = [op |-> "download", status |-> 404]
     ELSE /\ Commit(expireKey(Store, key, now))
          /\ last' = IF sessions[keys[key]].agent # agent
                       THEN [op |-> "download", status |-> 403]
                       ELSE [op |-> "download", status |-> 200,
                             path |-> sessions[keys[key]].files[idx].path,
                             attachment |-> includes(agent, "Kindle")]
  /\ UNCHANGED << now, uploads, nUploads >>

\* status 404 stands for next(): no route answers after this one
downloadFile(rawKey, name, agent) ==
  LET key == IF rawKey # << >> THEN toUpperCase(rawKey) ELSE << >>
      idx == IF has(keys, key) THEN findIndex(sessions[keys[key]].files, name) ELSE 0
  IN
  /\ IF key = << >> \/ ~ has(keys, key) \/ idx = 0
       THEN /\ UNCHANGED << keys, sessions, timers, disk, unlinked >>
            /\ last' = [op |-> "download", status |-> 404]
     ELSE IF sessions[keys[key]].agent # agent
       THEN /\ UNCHANGED << keys, sessions, timers, disk, unlinked >>
            /\ last' = [op |-> "download", status |-> 403]
     ELSE /\ Commit(expireKey(Store, key, now))
          /\ last' = [op |-> "download", status |-> 200,
                      path |-> sessions[keys[key]].files[idx].path,
                      attachment |-> includes(agent, "Kindle")]
  /\ UNCHANGED << now, uploads, nUploads >>

(* ---------------------- DELETE /file/:key/:filename -------------------- *)
RemoveAt(seq, i) == SubSeq(seq, 1, i - 1) \o SubSeq(seq, i + 1, Len(seq))

\* a slip: the session is renewed by the deletion
DeleteFileRenews(rawKey, name) ==
  LET key == toUpperCase(rawKey) IN
  /\ IF ~ has(keys, key)
       THEN /\ UNCHANGED << keys, sessions, timers, disk, unlinked >>
            /\ last' = [op |-> "delete", status |-> 400, name |-> name]
     ELSE
       LET sid == keys[key]
           fileIndex == findIndex(sessions[sid].files, name)
           touched == expireKey(Store, key, now)
       IN  /\ IF fileIndex # 0
                THEN Commit([unlink(touched, { sessions[sid].files[fileIndex].path })
                               EXCEPT !.sessions[sid].files = RemoveAt(@, fileIndex)])
                ELSE Commit(touched)
           /\ last' = [op |-> "delete", status |-> 200, name |-> name]
  /\ UNCHANGED << now, uploads, nUploads >>

\* the step's record keeps the name asked for
DeleteFile(rawKey, name) ==
  LET key == toUpperCase(rawKey) IN
  /\ IF ~ has(keys, key)
       THEN /\ UNCHANGED << keys, sessions, timers, disk, unlinked >>
            /\ last' = [op |-> "delete", status |-> 400, name |-> name]
     ELSE
       LET sid == keys[key]
           fileIndex == findIndex(sessions[sid].files, name)
       IN  /\ IF fileIndex # 0
                THEN Commit([unlink(Store, { sessions[sid].files[fileIndex].path })
                               EXCEPT !.sessions[sid].files = RemoveAt(@, fileIndex)])
                ELSE UNCHANGED << keys, sessions, timers, disk, unlinked >>
           /\ last' = [op |-> "delete", status |-> 200, name |-> name]
  /\ UNCHANGED << now, uploads, nUploads >>

(* ----------------------------- POST /upload ---------------------------- *)
\* A request is [hdr, qry, bkey, url, kindlegen, kepubify, transliteration,
\* files]; a file is [originalname, mimetype, sniffed, size], sniffed being
\* what FileType.fromFile finds in its bytes ("" when it finds nothing).
\* A request in flight is [req, pc, idx, paths, sid, url, messages,
\* processed, conversion]: where the handler stands (pc, and idx in
\* req.files), the paths of the files staged so far, and the handler's
\* locals.  The steps below return [st, u, done, last]: the store, the
\* request, whether it has been answered, and the step's record.

\* upload.fileFilter: "ok" or the error it calls back with
fileFilter(req, file, reg) ==
  LET key == IF trim(req.hdr) # << >> THEN toUpperCase(trim(req.hdr)) ELSE << >>
  IN  IF key = << >> THEN "Missing key"
      ELSE IF ~ has(reg, key) THEN "Unknown key"
      ELSE IF (file.mimetype \notin allowedTypes /\ file.mimetype # OCTET_STREAM)
              \/ extname(file.originalname) \notin allowedExtensions
        THEN "Invalid filetype"
      ELSE "ok"

\* multer.diskStorage filename: a name no other staged file has
stagedPath(id, idx, file) ==
  [base |-> << id, idx >>,
   ext |-> IF extname(file.originalname) = "" THEN << >>
           ELSE << extname(file.originalname) >>]

getKeyFromRequest(req) ==
  IF trim(req.hdr) # << >> THEN toUpperCase(trim(req.hdr))
  ELSE IF trim(req.qry) # << >> THEN toUpperCase(trim(req.qry))
  ELSE IF trim(req.bkey) # << >> THEN toUpperCase(trim(req.bkey))
  ELSE << >>

\* flash(): the status of the response
flash(success) == IF success THEN 200 ELSE 400

Staged(u) == { u.paths[i] : i \in 1..Len(u.paths) }

\* a slip: the batch is refused and its staged files are left behind
rejectBatchKeepsFiles(st, id, u, message) ==
  [st |-> st, u |-> u, done |-> TRUE,
   last |-> [op |-> "upload", id |-> id, req |-> u.req, status |-> flash(FALSE),
             message |-> message, lines |-> << >>, processed |-> 0]]

\* lines 240-243, 248-254, 257-263: the whole batch is refused, its staged
\* files unlinked (by multer when the filter refused; by the handler after)
rejectBatch(st, id, u, message) ==
  [st |-> unlink(st, Staged(u)), u |-> u, done |-> TRUE,
   last |-> [op |-> "upload", id |-> id, req |-> u.req, status |-> flash(FALSE),
             message |-> message, lines |-> << >>, processed |-> 0]]

\* upload.array("files", 10) takes the file at u.idx: the filter refuses it
\* (multer removes what it has staged, the handler's catch answers), or it
\* is written to the uploads directory
stage(st, id, u) ==
  LET file == u.req.files[u.idx]
      verdict == fileFilter(u.req, file, st.keys)
      path == stagedPath(id, u.idx, file)
      isLast == u.idx = Len(u.req.files)
  IN  IF verdict # "ok"
        THEN rejectBatch(st, id, u, verdict)
        ELSE [st |-> [st EXCEPT !.disk = @ \cup { path }],
              u |-> [u EXCEPT !.paths = Append(@, path),
                              !.idx = IF isLast THEN 1 ELSE u.idx + 1,
                              !.pc = IF isLast THEN "check" ELSE "stage"],
              done |-> FALSE,
              last |-> [op |-> "uploadStage", id |-> id]]

\* lines 298-318: the aggregated response
respond(st, id, u) ==
  LET messages == IF u.url # << >>
                    THEN Append(u.messages, [ok |-> TRUE, item |-> 0, url |-> u.url])
                    ELSE u.messages
  IN  [st |-> st, u |-> u, done |-> TRUE,
       last |-> [op |-> "upload", id |-> id, req |-> u.req,
                 status |-> flash(Len(messages) # 0),
                 message |-> IF Len(messages) = 0 THEN "No file or url selected"
                             ELSE "ok",
                 lines |-> messages, processed |-> u.processed]]

\* a slip: the loop ends at the first item that failed
advanceStopsOnFailure(st, id, u) ==
  IF u.idx < Len(u.req.files)
     /\ (u.messages = << >> \/ u.messages[Len(u.messages)].ok)
    THEN [st |-> st, u |-> [u EXCEPT !.idx = @ + 1, !.pc = "file"], done |-> FALSE,
          last |-> [op |-> "uploadItem", id |-> id]]
    ELSE respond(st, id, u)

\* after the item at u.idx: the next item, or the response
advance(st, id, u) ==
  IF u.idx < Len(u.req.files)
    THEN [st |-> st, u |-> [u EXCEPT !.idx = @ + 1, !.pc = "file"], done |-> FALSE,
          last |-> [op |-> "uploadItem", id |-> id]]
    ELSE respond(st, id, u)

\* lines 246-276: the key is resolved and checked, the session touched, the
\* url added
check(st, id, u, t) ==
  LET key == getKeyFromRequest(u.req) IN
  IF key = << >> \/ ~ has(st.keys, key)
    THEN rejectBatch(st, id, u, IF key = << >> THEN "Missing key" ELSE "Unknown key")
    ELSE
      LET sid == st.keys[key]
          touched == expireKey(st, key, t)
          url == trim(u.req.url)
          urls == st.sessions[sid].urls
          isNew == url # << >> /\ \A i \in 1..Len(urls) : urls[i] # url
          added == IF isNew THEN [touched EXCEPT !.sessions[sid].urls = Append(@, url)]
                   ELSE touched
          v == [u EXCEPT !.sid = sid, !.url = url, !.pc = "file", !.idx = 1]
      IN  IF u.req.files = << >>
            THEN respond(added, id, v)
            ELSE [st |-> added, u |-> v, done |-> FALSE,
                  last |-> [op |-> "uploadCheck", id |-> id]]

(* ------------------------------ processFile ---------------------------- *)
\* lines 381-384: the display name before conversion
displayName(file, agent, req) ==
  LET translit == IF req.transliteration THEN doTransliterate(file.originalname)
                  ELSE file.originalname
  IN  IF includes(agent, "Kindle") THEN kindleSafe(translit) ELSE translit

\* lines 386-390: the effective content type
effectiveType(file) ==
  LET sniffedOr == IF file.mimetype = OCTET_STREAM /\ file.sniffed # ""
                     THEN file.sniffed ELSE file.mimetype
  IN  IF sniffedOr = "application/epub" THEN TYPE_EPUB ELSE sniffedOr

\* line 392: the item is thrown out as of an invalid type
invalidType(file) ==
  (file.sniffed = "" \/ file.sniffed \notin allowedTypes)
  /\ effectiveType(file) \notin allowedTypes

\* a slip: the conversion flags of the request are not looked at
conversionOfAnyFlags(file, agent, req) ==
  IF effectiveType(file) = TYPE_EPUB /\ includes(agent, "Kindle")
    THEN "kindlegen"
  ELSE IF effectiveType(file) = TYPE_EPUB /\ includes(agent, "Kobo")
    THEN "kepubify"
  ELSE "none"

\* lines 404, 431, 456: which converter runs, if any
conversionOf(file, agent, req) ==
  IF effectiveType(file) = TYPE_EPUB /\ includes(agent, "Kindle") /\ req.kindlegen
    THEN "kindlegen"
  ELSE IF effectiveType(file) = TYPE_EPUB /\ includes(agent, "Kobo") /\ req.kepubify
    THEN "kepubify"
  ELSE "none"

\* lines 406, 433: the file the converter writes
outname(path, conversion) ==
  IF conversion = "kindlegen" THEN replaceEpub(path, << "mobi" >>)
  ELSE replaceEpub(path, << "kepub", "epub" >>)

\* lines 407, 434, 458: the display name of the record
recordName(filename, conversion) ==
  IF conversion = "kindlegen"
    THEN replaceEpub(replaceKepubEpub(filename), << "mobi" >>)
  ELSE IF conversion = "kepubify"
    THEN replaceEpub(replaceKepubEpub(filename), << "kepub", "epub" >>)
  ELSE replacePdf(replaceEpub(filename, << "epub" >>))

\* lines 416-417, 422-423, 443, 448: what the converter's handlers unlink
converterUnlinks(path, conversion) ==
  IF conversion = "kindlegen" THEN { path, replaceEpub(path, << "mobi8" >>) }
  ELSE { path }

\* a slip: both converters are given kindlegen's reading of the exit code
converterSucceededAlike(conversion, launched, code) ==
  launched /\ (code = 0 \/ code = 1)

\* lines 415-426, 442-451: the "close" handler resolves for these exit
\* codes; the "error" handler of a failed launch always rejects
converterSucceeded(conversion, launched, code) ==
  /\ launched
  /\ IF conversion = "kindlegen" THEN code = 0 \/ code = 1 ELSE code = 0

\* lines 287-289: the record is appended to the session object and reported
accept(st, u, record) ==
  [st |-> [st EXCEPT !.sessions[u.sid].files = Append(@, record)],
   u |-> [u EXCEPT !.processed = @ + 1,
                   !.messages = Append(@, [ok |-> TRUE, item |-> u.idx,
                                            name |-> record.name,
                                            conversion |-> record.conversion])]]

\* lines 291-293: the item's failure is reported and its staged file unlinked
reject(st, u, why) ==
  [st |-> unlink(st, { u.paths[u.idx] }),
   u |-> [u EXCEPT !.messages = Append(@, [ok |-> FALSE, item |-> u.idx,
                                            name |-> u.req.files[u.idx].originalname,
                                            why |-> why])]]

\* one turn of the loop of lines 279-295, up to the converter's start or,
\* without a converter, to the end of the turn
processItem(st, id, u) ==
  LET file == u.req.files[u.idx]
      path == u.paths[u.idx]
      agent == st.sessions[u.sid].agent
      conversion == conversionOf(file, agent, u.req)
      record == [name |-> recordName(displayName(file, agent, u.req), "none"),
                 path |-> path, conversion |-> "none"]
  IN  IF file.size = 0
        THEN advance(unlink(st, { path }), id, u)
      ELSE IF invalidType(file)
        THEN LET r == reject(st, u, "invalid type") IN advance(r.st, id, r.u)
      ELSE IF conversion # "none"
        THEN [st |-> st, u |-> [u EXCEPT !.pc = "convert", !.conversion = conversion],
              done |-> FALSE, last |-> [op |-> "spawn", id |-> id]]
      ELSE LET a == accept(st, u, record) IN advance(a.st, id, a.u)

\* the converter ends, with a launch failure or an exit code, having written
\* its output file or not: lines 415-426, 442-451, then 287-293; the step's
\* record keeps how it ended
converted(st, id, u, launched, code, wrote) ==
  LET file == u.req.files[u.idx]
      path == u.paths[u.idx]
      agent == st.sessions[u.sid].agent
      out == outname(path, u.conversion)
      written == IF wrote THEN [st EXCEPT !.disk = @ \cup { out }] ELSE st
      ended == unlink(written, converterUnlinks(path, u.conversion))
      record == [name |-> recordName(displayName(file, agent, u.req), u.conversion),
                 path |-> out, conversion |-> u.conversion]
      v == [u EXCEPT !.conversion = "none"]
      next == IF converterSucceeded(u.conversion, launched, code)
                THEN LET a == accept(ended, v, record) IN advance(a.st, id, a.u)
                ELSE LET r == reject(ended, v, u.conversion) IN advance(r.st, id, r.u)
  IN  [next EXCEPT !.last = @ @@ [ran |-> u.conversion, launched |-> launched,
                                   code |-> code]]

\* a step of the request `id` takes effect
Take(id, r) ==
  /\ Commit(r.st)
  /\ uploads' = IF r.done THEN [i \in (DOMAIN uploads) \ { id } |-> uploads[i]]
                ELSE [i \in (DOMAIN uploads) \cup { id } |->
                        IF i = id THEN r.u ELSE uploads[i]]
  /\ last' = r.last

\* the request arrives, and with it its first file
UploadBegin(req) ==
  LET id == nUploads + 1
      u == [req |-> req, pc |-> IF req.files = << >> THEN "check" ELSE "stage",
            idx |-> 1, paths |-> << >>, sid |-> 0, url |-> << >>,
            messages |-> << >>, processed |-> 0, conversion |-> "none"]
  IN  /\ nUploads' = id
      /\ Take(id, IF req.files = << >>
                    THEN [st |-> Store, u |-> u, done |-> FALSE,
                          last |-> [op |-> "uploadBegin", id |-> id]]
                    ELSE stage(Store, id, u))
      /\ UNCHANGED now

\* the next file of the request arrives
UploadStage(id) ==
  /\ id \in DOMAIN uploads /\ uploads[id].pc = "stage"
  /\ Take(id, stage(Store, id, uploads[id]))
  /\ UNCHANGED << now, nUploads >>

\* upload.array is done: the handler goes on
UploadCheck(id) ==
  /\ id \in DOMAIN uploads /\ uploads[id].pc = "check"
  /\ Take(id, check(Store, id, uploads[id], now))
  /\ UNCHANGED << now, nUploads >>

\* FileType.fromFile is done: the item is refused, kept as it is, or
\* handed to a converter
UploadFile(id) ==
  /\ id \in DOMAIN uploads /\ uploads[id].pc = "file"
  /\ Take(id, processItem(Store, id, uploads[id]))
  /\ UNCHANGED << now, nUploads >>

\* the converter's "error" or "close" event
UploadConverted(id, launched, code, wrote) ==
  /\ id \in DOMAIN uploads /\ uploads[id].pc = "convert"
  /\ ~ launched => (code = 0 /\ ~ wrote)
  /\ converterSucceeded(uploads[id].conversion, launched, code) => wrote
  /\ Take(id, converted(Store, id, uploads[id], launched, code, wrote))
  /\ UNCHANGED << now, nUploads >>

(* ------------------------------- inputs -------------------------------- *)
\* what Math.random() can yield here: two of the `choices` values
FirstDraw == choices \div 3 + 8
Draws == { FirstDraw, 2 * (choices \div 3) + 16 }
\* one draw more than the loop can make with `reg` registered
DrawSeqs(from, reg) == UNION { [1..n -> from] : n \in 1..(Cardinality(DOMAIN reg) + 3) }
Keys == { randomKey(d) : d \in Draws }
FirstKey == randomKey(FirstDraw)

LowerChar(c) ==
  IF \E i \in 1..Len(upperLetters) : upperLetters[i] = c
    THEN lowerLetters[CHOOSE i \in 1..Len(upperLetters) : upperLetters[i] = c]
    ELSE c
toLowerCase(s) == [i \in 1..Len(s) |-> LowerChar(s[i])]

Kindle == << "Mozilla", "Kindle" >>
Kobo == << "Mozilla", "Kobo" >>
Desktop == << "Mozilla" >>
KindleKobo == << "Kindle", "Kobo" >>

Book == [originalname |-> [base |-> "book", ext |-> << "epub" >>],
         mimetype |-> TYPE_EPUB, sniffed |-> TYPE_EPUB, size |-> 1]

NoFields == [hdr |-> << >>, qry |-> << >>, bkey |-> << >>, url |-> << >>,
             kindlegen |-> FALSE, kepubify |-> FALSE, transliteration |-> FALSE,
             files |-> << >>]

ExitCodes == { 0, 1, 2 }

\* the hard cap and one idle window more
LongRun == maxExpireDuration * 1000 + expireDelay * 1000

(* --------------------- the registry and its timers --------------------- *)
\* Spec: one device asks for keys and polls them while the clock runs past
\* the hard cap.
RawKeys == Keys \cup { toLowerCase(FirstKey) }

Next ==
  \/ \E draws \in DrawSeqs(Draws, keys) :
       Len(sessions) < MaxSessions /\ Generate(Kobo, draws)
  \/ \E k \in RawKeys : Status(k, Kobo)
  \/ \E t \in timers : IdleTimerFires(t)
  \/ \E t \in timers : CapTimerFires(t)
  \/ Tick(LongRun)

Spec == Init /\ [][Next]_vars

(* --------------------------- touching a session ------------------------ *)
\* SpecTouch: one key, issued again and again; its session is polled,
\* uploaded to and downloaded from while the clock runs past the hard cap.
FileRequests ==
  { [NoFields EXCEPT !.hdr = FirstKey, !.files = << Book >>],
    [NoFields EXCEPT !.hdr = FirstKey, !.url = << "u" >>] }

NextTouch ==
  \/ \E draws \in DrawSeqs({ FirstDraw }, keys) :
       Len(sessions) < MaxSessions /\ Generate(Kobo, draws)
  \/ Status(FirstKey, Kobo)
  \/ downloadFile(FirstKey, Book.originalname, Kobo)
  \/ \E req \in FileRequests : nUploads < MaxUploads /\ UploadBegin(req)
  \/ \E id \in DOMAIN uploads : UploadCheck(id)
  \/ \E id \in DOMAIN uploads : UploadFile(id)
  \/ \E t \in timers : IdleTimerFires(t)
  \/ \E t \in timers : CapTimerFires(t)
  \/ Tick(LongRun)

SpecTouch == Init /\ [][NextTouch]_vars

(* --------------------------- the upload pipeline ----------------------- *)
\* SpecUpload: one device of any class is paired; requests of every shape
\* are uploaded, one at a time, while the clock runs through one idle
\* window, so that the session may expire under a request in flight.
UploadAgents == { Kindle, Kobo, Desktop, KindleKobo }

Declared == { TYPE_EPUB, OCTET_STREAM, "application/epub", "image/png" }
Sniffed == { TYPE_EPUB, "application/zip", "image/png", "" }
Extensions == { << "epub" >>, << "PDF" >>, << "exe" >> }

File(ext, mimetype, sniffed) ==
  [originalname |-> [base |-> "book", ext |-> ext],
   mimetype |-> mimetype, sniffed |-> sniffed, size |-> 1]

Single(file) == [NoFields EXCEPT !.hdr = FirstKey, !.files = << file >>]

\* one file of each declared type, sniffed type and extension
TypeRequests ==
  { Single(File(e, d, s)) : e \in Extensions, d \in Declared, s \in Sniffed }

\* files a converter may be run on, with the conversion flags
Empty == [Book EXCEPT !.size = 0]
Kepub == File(<< "kepub", "epub" >>, TYPE_EPUB, TYPE_EPUB)
Spaced == [originalname |-> [base |-> "my book", ext |-> << "EPUB" >>],
           mimetype |-> OCTET_STREAM, sniffed |-> TYPE_EPUB, size |-> 1]
Zipped == File(<< "epub" >>, "application/zip", TYPE_EPUB)
Unknown == File(<< "epub" >>, OCTET_STREAM, "")
ConvertRequests ==
  { [Single(f) EXCEPT !.kindlegen = a, !.kepubify = b] :
      f \in { Book, Kepub, Spaced, Zipped, File(<< "PDF" >>, TYPE_EPUB, TYPE_EPUB) },
      a \in BOOLEAN, b \in BOOLEAN }

\* batches of several files
BatchRequests ==
  { [NoFields EXCEPT !.hdr = FirstKey, !.files = fs, !.kindlegen = TRUE,
                     !.kepubify = TRUE] :
      fs \in { << Unknown, Book >>, << Book, Unknown >>, << Empty, Book >>,
               << Book, Empty >>, << Empty >>, << Book, Book >> } }

\* the ways a key is sent, and requests without files
KeyRequests ==
  { [NoFields EXCEPT !.hdr = h, !.qry = q, !.bkey = b, !.files = fs, !.url = u] :
      h \in { << >>, toLowerCase(FirstKey) }, q \in { << >>, FirstKey },
      b \in { << >>, << " " >> \o FirstKey }, fs \in { << >>, << Book >> },
      u \in { << >>, << " " >>, << "u" >> } }

UploadRequests == TypeRequests \cup ConvertRequests \cup BatchRequests \cup KeyRequests

\* the names a status poll of `key` lists
Listed(key) ==
  IF has(keys, key)
    THEN { sessions[keys[key]].files[i].name : i \in 1..Len(sessions[keys[key]].files) }
    ELSE { }

NextUpload ==
  \/ \E agent \in UploadAgents, draws \in DrawSeqs({ FirstDraw }, keys) :
       sessions = << >> /\ Generate(agent, draws)
  \/ \E req \in UploadRequests :
       uploads = << >> /\ nUploads < MaxUploads /\ UploadBegin(req)
  \/ \E id \in DOMAIN uploads : UploadStage(id)
  \/ \E id \in DOMAIN uploads : UploadCheck(id)
  \/ \E id \in DOMAIN uploads : UploadFile(id)
  \/ \E id \in DOMAIN uploads, launched \in BOOLEAN, code \in ExitCodes, wrote \in BOOLEAN :
       UploadConverted(id, launched, code, wrote)
  \/ \E name \in Listed(FirstKey) : DeleteFile(FirstKey, name)
  \/ \E t \in timers : IdleTimerFires(t)
  \/ Tick(expireDelay * 1000)

SpecUpload == Init /\ [][NextUpload]_vars

(* ------------------------------ the gates ------------------------------ *)
\* SpecGate: a device is paired and a book uploaded for it; that device and
\* another one poll the key, download and delete, by the book's name and by
\* another name, while the clock runs through two idle windows.
GateAgents == { Kobo, Kindle }
Other == [base |-> "other", ext |-> << "epub" >>]
GateNames == { Book.originalname, Other }

NextGate ==
  \/ \E draws \in DrawSeqs({ FirstDraw }, keys) :
       Len(sessions) < MaxSessions /\ Generate(Kobo, draws)
  \/ nUploads < MaxUploads /\ UploadBegin(Single(Book))
  \/ \E id \in DOMAIN uploads : UploadCheck(id)
  \/ \E id \in DOMAIN uploads : UploadFile(id)
  \/ \E agent \in GateAgents : Status(FirstKey, agent)
  \/ \E k \in { << >>, toLowerCase(FirstKey) }, name \in GateNames, agent \in GateAgents :
       downloadFile(k, name, agent)
  \/ \E name \in GateNames : DeleteFile(FirstKey, name)
  \/ \E t \in timers : IdleTimerFires(t)
  \/ Tick(2 * expireDelay * 1000)

SpecGate == Init /\ [][NextGate]_vars

(* ================================ claims =============================== *)
Registered(sid) == \E k \in DOMAIN keys : keys[k] = sid
IdleWindow == expireDelay * 1000
HardCap == maxExpireDuration * 1000

IdleBound ==
  \A k \in DOMAIN keys :
    LET s == sessions[keys[k]] IN
      \/ now < s.alive + IdleWindow
      \/ /\ now = s.alive + IdleWindow
         /\ s.timer \in timers /\ s.timer.due = now /\ s.timer.key = k

UnknownKeyIs404 ==
  [][\A k \in RawKeys :
       (Status(k, Kobo) /\ ~ has(keys, toUpperCase(k))) => last'.status = 404]_vars

IdleExpiry == [] IdleBound /\ UnknownKeyIs404

\* C2 witness: the only session was removed by its idle timer, before its
\* hard cap, and a status poll was then answered 404.
IdleExpired404 ==
  /\ last.op = "status" /\ last.status = 404
  /\ Len(sessions) = 1 /\ keys = << >>
  /\ sessions[1].alive + IdleWindow <= now
  /\ now < sessions[1].created + HardCap

\* C3: every registered key has four characters of the alphabet and its own
\* session object; /generate issues a key that was not registered, adds one
\* entry for a new session object and leaves every other entry as it was.
KeysWellFormed ==
  /\ \A k \in DOMAIN keys :
       /\ Len(k) = keyLength
       /\ \A i \in 1..Len(k) : \E j \in 1..Len(keyChars) : keyChars[j] = k[i]
       /\ keys[k] \in 1..Len(sessions)
  /\ \A k1, k2 \in DOMAIN keys : keys[k1] = keys[k2] => k1 = k2

IssuesFreshKey ==
  [][(last'.op = "generate" /\ last'.body # << "error" >>) =>
       /\ ~ has(keys, last'.body)
       /\ DOMAIN keys' = (DOMAIN keys) \cup { last'.body }
       /\ \A k \in DOMAIN keys : keys'[k] = keys[k]
       /\ keys'[last'.body] = Len(sessions) + 1
       /\ Len(sessions') = Len(sessions) + 1]_vars

UniqueKeys == [] KeysWellFormed /\ IssuesFreshKey

\* C3 witness: a draw collided with a registered key and the loop went on
\* to one that was free, so that two sessions are registered.
KeyCollisionResolved ==
  /\ last.op = "generate" /\ last.body # << "error" >>
  /\ last.attempts > 1
  /\ Cardinality(DOMAIN keys) = 2

\* C4: no artifact outlives its session: every path a session object that is
\* no longer registered holds a FileRecord of has been unlinked.
NoArtifactOutlivesSession ==
  \A sid \in 1..Len(sessions) :
    ~ Registered(sid) => Paths(sessions[sid].files) \subseteq unlinked

\* identity checks of the status poll and of the download
Mismatch(rawKey, agent) ==
  /\ has(keys, toUpperCase(rawKey))
  /\ sessions[keys[toUpperCase(rawKey)]].agent # agent

Resolves(rawKey, name) ==
  /\ has(keys, toUpperCase(rawKey))
  /\ findIndex(sessions[keys[toUpperCase(rawKey)]].files, name) # 0

Forbidden ==
  /\ last'.status = 403
  /\ UNCHANGED << keys, sessions, timers, disk, unlinked >>

\* C5 as stated: a status poll or a download of any name, for a registered
\* session and from another device identity than the recorded one, is
\* answered 403 and leaves the registry, the sessions and the timers as
\* they were.
ForbiddenOnAnyMismatch ==
  [][/\ \A k \in RawKeys, agent \in GateAgents :
          (Status(k, agent) /\ Mismatch(k, agent)) => Forbidden
     /\ \A k \in RawKeys, name \in GateNames, agent \in GateAgents :
          (downloadFile(k, name, agent) /\ Mismatch(k, agent)) => Forbidden]_vars

\* C5, amended: a status poll, or a download of a name the session has a
\* FileRecord of, from another device identity than the recorded one is
\* answered 403 and leaves the registry, the sessions (timer handle,
\* last-activity time, files, urls) and the timers as they were.
ForbiddenOnMismatch ==
  [][/\ \A k \in RawKeys, agent \in GateAgents :
          (Status(k, agent) /\ Mismatch(k, agent)) => Forbidden
     /\ \A k \in RawKeys, name \in GateNames, agent \in GateAgents :
          (downloadFile(k, name, agent) /\ Mismatch(k, agent) /\ Resolves(k, name))
            => Forbidden]_vars

\* C5 witness: a download of the session's book by another device was
\* answered 403, one idle window or more after the session's last renewal.
DownloadForbidden ==
  /\ last.op = "download" /\ last.status = 403
  /\ has(keys, FirstKey)
  /\ sessions[keys[FirstKey]].files # << >>
  /\ now > sessions[keys[FirstKey]].alive
  /\ sessions[keys[FirstKey]].timer \in timers

\* the request names a key that is not registered
UnknownKey(req) ==
  getKeyFromRequest(req) # << >> /\ ~ has(keys, getKeyFromRequest(req))

\* the request `id` is answered 400 and is over, the files it staged are
\* unlinked, and no session or timer has changed
Refused(id, staged) ==
  /\ last'.op = "upload" /\ last'.id = id
  /\ last'.status = 400 /\ last'.lines = << >> /\ last'.processed = 0
  /\ id \notin DOMAIN uploads'
  /\ staged \subseteq unlinked' /\ staged \cap disk' = { }
  /\ UNCHANGED << keys, sessions, timers >>

\* C6: when a file of an upload arrives, or the handler checks the key, and
\* the request's key is not registered, the files the request has staged are
\* unlinked, the request is answered 400 once and is over, and no session
\* and no timer changes.
UnknownKeyRefused ==
  [][/\ \A req \in UploadRequests :
          (UploadBegin(req) /\ req.files # << >> /\ UnknownKey(req))
            => Refused(nUploads + 1, { })
     /\ \A id \in DOMAIN uploads :
          ((UploadStage(id) \/ UploadCheck(id)) /\ UnknownKey(uploads[id].req))
            => Refused(id, Staged(uploads[id]))]_vars

\* C6 witness: the key expired after the request's first file was staged;
\* the request was refused and that file unlinked.
StagedThenRefused ==
  /\ last.op = "upload" /\ last.message = "Unknown key"
  /\ last.req.files # << >>
  /\ stagedPath(last.id, 1, last.req.files[1]) \in unlinked
  /\ sessions # << >> /\ keys = << >>

\* the acceptance rule as the specification words it
Allowed(file) ==
  /\ file.mimetype \in allowedTypes \/ file.sniffed \in allowedTypes
  /\ extname(file.originalname) \in allowedExtensions

\* C7: a request of one non-empty file, sent with a registered key, is
\* answered with that file received if and only if its declared or its
\* sniffed type is in the allow-list and its extension is.
AcceptedIffAllowed ==
  [][(/\ last'.op = "upload"
      /\ last'.req \in TypeRequests
      /\ last'.message \notin { "Missing key", "Unknown key" })
       => (last'.processed = 1 <=> Allowed(last'.req.files[1]))]_vars

\* what the item at hand of the request `id` is dispatched to by this step
StartsConverter(id, conversion) ==
  /\ id \in DOMAIN uploads'
  /\ uploads'[id].pc = "convert" /\ uploads'[id].conversion = conversion

Passthrough(id) ==
  LET u == uploads[id]
      before == sessions[u.sid].files
      after == sessions'[u.sid].files
  IN  /\ ~ StartsConverter(id, "kindlegen") /\ ~ StartsConverter(id, "kepubify")
      /\ Len(after) = Len(before) + 1
      /\ SubSeq(after, 1, Len(before)) = before
      /\ after[Len(after)].conversion = "none"
      /\ after[Len(after)].path = u.paths[u.idx]

\* the item at hand of the request `id` is one processFile dispatches
Dispatched(id) ==
  /\ UploadFile(id)
  /\ uploads[id].req.files[uploads[id].idx].size # 0
  /\ ~ invalidType(uploads[id].req.files[uploads[id].idx])

WantsKindlegen(id) ==
  LET u == uploads[id] IN
  /\ effectiveType(u.req.files[u.idx]) = TYPE_EPUB
  /\ includes(sessions[u.sid].agent, "Kindle")
  /\ u.req.kindlegen

WantsKepubify(id) ==
  LET u == uploads[id] IN
  /\ effectiveType(u.req.files[u.idx]) = TYPE_EPUB
  /\ includes(sessions[u.sid].agent, "Kobo")
  /\ u.req.kepubify

LinesAfter(id) ==
  IF id \in DOMAIN uploads' THEN uploads'[id].messages
  ELSE SelectSeq(last'.lines, LAMBDA l : l.item # 0)

\* the item at hand of the request `id` has succeeded: its record is
\* appended to the session object and reported
Succeeded(id, conversion) ==
  LET u == uploads[id]
      before == sessions[u.sid].files
      after == sessions'[u.sid].files
      lines == LinesAfter(id)
  IN  /\ Len(after) = Len(before) + 1
      /\ SubSeq(after, 1, Len(before)) = before
      /\ after[Len(after)].conversion = conversion
      /\ Len(lines) = Len(u.messages) + 1
      /\ SubSeq(lines, 1, Len(u.messages)) = u.messages
      /\ lines[Len(lines)].ok /\ lines[Len(lines)].item = u.idx
      /\ lines[Len(lines)].name = after[Len(after)].name

\* the item at hand of the request `id` has failed: nothing is appended to
\* the session object and the failure is reported
Failed(id) ==
  LET u == uploads[id]
      lines == LinesAfter(id)
  IN  /\ sessions'[u.sid].files = sessions[u.sid].files
      /\ Len(lines) = Len(u.messages) + 1
      /\ SubSeq(lines, 1, Len(u.messages)) = u.messages
      /\ ~ lines[Len(lines)].ok /\ lines[Len(lines)].item = u.idx

\* C9: a kindlegen run that closes with code 0 or 1 gives a record of
\* conversion kind kindlegen, a kepubify run that closes with code 0 one of
\* kind kepubify; every other code, and a launch failure, gives a failure
\* line for the item.
ExitCodes01 ==
  [][\A id \in DOMAIN uploads, launched \in BOOLEAN, code \in ExitCodes,
        wrote \in BOOLEAN :
       UploadConverted(id, launched, code, wrote) =>
         LET ran == uploads[id].conversion
             fine == /\ launched
                     /\ \/ ran = "kindlegen" /\ code \in { 0, 1 }
                        \/ ran = "kepubify" /\ code = 0
         IN  IF fine THEN Succeeded(id, ran) ELSE Failed(id)]_vars

\* C9 witness: kindlegen closed with code 1 and its output is a record of
\* the session.
KindlegenWarned ==
  /\ last.op = "upload" /\ "code" \in DOMAIN last
  /\ last.ran = "kindlegen" /\ last.launched /\ last.code = 1
  /\ last.processed = 1
  /\ last.lines[1].ok /\ last.lines[1].conversion = "kindlegen"

\* the items of a request that are not empty, in submission order
NonEmptyItems(req) ==
  SelectSeq([i \in 1..Len(req.files) |-> i], LAMBDA i : req.files[i].size # 0)

\* C10: a response of the per-file stage has one line per non-empty item of
\* the request, in submission order, and counts the lines of success; and
\* each item that ends, in success or in failure, gets its line, is appended
\* to the session object if it succeeded, and is followed by the next item
\* of the request if there is one.
BatchGoesOn ==
  [][/\ (/\ last'.op = "upload"
         /\ last'.message \notin { "Missing key", "Unknown key", "Invalid filetype" })
          => LET lines == SelectSeq(last'.lines, LAMBDA l : l.item # 0) IN
             /\ [i \in 1..Len(lines) |-> lines[i].item] = NonEmptyItems(last'.req)
             /\ last'.processed = Len(SelectSeq(lines, LAMBDA l : l.ok))
     /\ \A id \in DOMAIN uploads :
          (/\ uploads[id].pc \in { "file", "convert" }
           /\ last'.op \in { "uploadItem", "upload" } /\ last'.id = id)
            => LET u == uploads[id] IN
               /\ IF u.req.files[u.idx].size = 0
                    THEN /\ LinesAfter(id) = u.messages
                         /\ sessions'[u.sid].files = sessions[u.sid].files
                    ELSE \/ Failed(id)
                         \/ Succeeded(id, "none")
                         \/ Succeeded(id, "kindlegen")
                         \/ Succeeded(id, "kepubify")
               /\ u.idx < Len(u.req.files)
                    => /\ id \in DOMAIN uploads'
                       /\ uploads'[id].pc = "file"
                       /\ uploads'[id].idx = u.idx + 1]_vars

\* C10 witness: the first item of a batch failed, the second was received.
SecondAfterFailure ==
  /\ last.op = "upload" /\ Len(last.lines) = 2
  /\ ~ last.lines[1].ok /\ last.lines[1].item = 1
  /\ last.lines[2].ok /\ last.lines[2].item = 2
  /\ last.processed = 1

\* the response carries the line of a submitted url
UrlReported(lines) == \E i \in 1..Len(lines) : lines[i].item = 0

\* C11: a request with a registered key that ends with no file received and
\* no url is answered 400, however it came to have no file received; and a
\* request is answered 200 only with a file received or a url.
NothingSelected ==
  [][(/\ last'.op = "upload"
      /\ last'.message \notin { "Missing key", "Unknown key" })
       => /\ (last'.processed = 0 /\ ~ UrlReported(last'.lines)) => last'.status = 400
          /\ last'.status = 200 => (last'.processed > 0 \/ UrlReported(last'.lines))]_vars

\* the FileRecords of the session under `key`
FilesOf(key) == sessions[keys[key]].files

\* C12: a deletion by name on a registered session removes the one record
\* of that name and unlinks its path and nothing else, or finds none and
\* changes nothing; and the same deletion, asked for again right after,
\* is answered "ok" and changes nothing.
DeleteOnceThenNoop ==
  [][\A name \in GateNames \cup Listed(FirstKey) :
       (DeleteFile(FirstKey, name) /\ has(keys, FirstKey)) =>
         LET before == FilesOf(FirstKey)
             idx == findIndex(before, name)
         IN  /\ last'.status = 200
             /\ UNCHANGED << keys, timers >>
             /\ IF idx = 0
                  THEN UNCHANGED << sessions, disk, unlinked >>
                  ELSE /\ sessions'[keys[FirstKey]].files = RemoveAt(before, idx)
                       /\ unlinked' = unlinked \cup { before[idx].path }
                       /\ disk' = disk \ { before[idx].path }
             /\ (last.op = "delete" /\ last.status = 200 /\ last.name = name)
                  => UNCHANGED << sessions, disk, unlinked >>]_vars

\* C13: a request that carries files and whose key, taken from the header,
\* else from the query, else from the body field, is registered is not
\* refused for its key, whichever of the three carries it.
KeyFromAnyTransport ==
  [][(/\ last'.op = "upload"
      /\ last'.req.files # << >>
      /\ has(keys, getKeyFromRequest(last'.req)))
       => last'.message \notin { "Missing key", "Unknown key" }]_vars

\* this step is a status poll or a download that was served, or an upload
\* that passed its key check
Touched ==
  \/ last'.op \in { "status", "download" } /\ last'.status = 200
  \/ last'.op = "uploadCheck"
  \/ /\ last'.op = "upload"
     /\ last'.id \in DOMAIN uploads /\ uploads[last'.id].pc = "check"
     /\ last'.message \notin { "Missing key", "Unknown key" }

IdleTimersOf(set, key) == { t \in set : t.kind = "idle" /\ t.key = key }

\* C14: a touch of the session under the key leaves it one pending idle
\* timer, due a full idle window after the touch, and the time of the touch
\* as its last activity; and a session leaves the registry no earlier than
\* the lesser of last activity + idle window and creation + hard cap.
TouchRenews ==
  [][/\ (Touched /\ has(keys, FirstKey)) =>
          LET sid == keys[FirstKey] IN
          /\ has(keys', FirstKey) /\ keys'[FirstKey] = sid
          /\ sessions'[sid].alive = now
          /\ sessions'[sid].timer.due = now + IdleWindow
          /\ IdleTimersOf(timers', FirstKey) = { sessions'[sid].timer }
     /\ \A sid \in 1..Len(sessions) :
          (Registered(sid) /\ ~ \E k \in DOMAIN keys' : keys'[k] = sid)
            => now >= Min(sessions[sid].alive + IdleWindow,
                          sessions[sid].created + HardCap)]_vars

\* C14 witness: a session that was touched after its creation has been
\* removed by its idle timer an idle window after its last touch, before
\* its hard cap.
RenewedThenIdle ==
  /\ last.op = "idleTimer"
  /\ \E sid \in 1..Len(sessions) :
       /\ ~ Registered(sid)
       /\ sessions[sid].alive > sessions[sid].created
       /\ now = sessions[sid].alive + IdleWindow
       /\ now < sessions[sid].created + HardCap

\* the timer belongs to the session that is registered under its key
OfRegistered(t) == has(keys, t.key) /\ keys[t.key] = t.sid

\* C15: a timer that fires for a session that is not the one registered
\* under its key changes no session, removes no key and unlinks nothing;
\* and a session leaves the registry only by a timer of its own.
StaleTimerIsNoop ==
  [][/\ \A t \in timers :
          ((IdleTimerFires(t) \/ CapTimerFires(t)) /\ ~ OfRegistered(t))
            => UNCHANGED << keys, sessions, disk, unlinked >>
     /\ \A sid \in 1..Len(sessions) :
          (Registered(sid) /\ ~ \E k \in DOMAIN keys' : keys'[k] = sid)
            => \E t \in timers \ timers' : t.sid = sid /\ t.due <= now]_vars

\* C15 witness: the key was issued again after its first session expired;
\* the hard-cap timer of the first session has fired and the second
\* session is registered, with its file in place.
StaleCapFired ==
  /\ last.op = "capTimer"
  /\ Len(sessions) >= 2 /\ ~ Registered(1) /\ Registered(2)
  /\ now = sessions[1].created + HardCap
  /\ ~ \E t \in timers : t.kind = "cap" /\ t.sid = 1
  /\ sessions[2].files # << >>
  /\ Paths(sessions[2].files) \cap unlinked = { }

CapTimersOf(set, sid) == { t \in set : t.kind = "cap" /\ t.sid = sid }

\* C16: every registered session has one pending idle timer, the one it
\* records, and one pending hard-cap timer, due at its creation + hard cap.
TwoTimersEach ==
  \A k \in DOMAIN keys :
    LET sid == keys[k]
        s == sessions[sid]
    IN  /\ s.timer \in timers
        /\ IdleTimersOf(timers, k) = { s.timer }
        /\ CapTimersOf(timers, sid) =
             { [kind |-> "cap", key |-> k, sid |-> sid, due |-> s.created + HardCap] }

\* C16 witness: a session renewed by a poll or a download after its first
\* idle window would have ended.
RenewedLate ==
  /\ last.op \in { "status", "download" } /\ last.status = 200
  /\ has(keys, FirstKey)
  /\ sessions[keys[FirstKey]].alive >= sessions[keys[FirstKey]].created + IdleWindow

\* C17: no timer of a session that has been removed is pending: every
\* pending timer, idle or hard-cap, was set for a session that is registered.
NoTimerOfRemoved ==
  \A t \in timers : Registered(t.sid)

\* the artifacts of the item a converter was run on: the staged input, the
\* output the converter was told to write, and kindlegen's intermediate
ArtifactsOf(path, conversion) ==
  IF conversion = "kindlegen"
    THEN { path, replaceEpub(path, << "mobi" >>), replaceEpub(path, << "mobi8" >>) }
    ELSE { path, replaceEpub(path, << "kepub", "epub" >>) }

\* C18: when a converter run ends in failure (kindlegen with a code other
\* than 0 and 1, kepubify with a code other than 0, or a launch failure),
\* the item's failure is reported, no record is appended, and every
\* artifact of the item has been unlinked.
FailureLeavesNothing ==
  [][\A id \in DOMAIN uploads, launched \in BOOLEAN, code \in ExitCodes,
        wrote \in BOOLEAN :
       UploadConverted(id, launched, code, wrote) =>
         LET u == uploads[id]
             fine == /\ launched
                     /\ \/ u.conversion = "kindlegen" /\ code \in { 0, 1 }
                        \/ u.conversion = "kepubify" /\ code = 0
         IN  ~ fine =>
               /\ Failed(id)
               /\ ArtifactsOf(u.paths[u.idx], u.conversion) \subseteq unlinked'
               /\ ArtifactsOf(u.paths[u.idx], u.conversion) \cap disk' = { }]_vars

Size == Cardinality(DOMAIN keys)

\* the loop of /generate has ended, whatever is drawn, by its (N+2)th draw
EndsInTime ==
  \A draws \in [1..(Size + 2) -> Draws] : generateLoop(keys, draws, 0).result # "more"

\* C19: with N keys registered /generate ends within N + 2 draws; it then
\* registers a new session under a key that was free, or answers "error"
\* and leaves the registry, the sessions and the timers as they were.
GenerateEnds ==
  /\ [] EndsInTime
  /\ [][\A draws \in DrawSeqs(Draws, keys) :
          Generate(Kobo, draws) =>
            /\ Len(draws) <= Size + 2
            /\ IF last'.body = << "error" >>
                 THEN UNCHANGED << keys, sessions, timers >>
                 ELSE /\ ~ has(keys, last'.body) /\ has(keys', last'.body)
                      /\ Len(sessions') = Len(sessions) + 1]_vars

\* C19 witness: with a key registered, /generate has drawn it twice, drawn
\* once more and answered "error".
CapacityError ==
  /\ last.op = "generate" /\ last.body = << "error" >>
  /\ Size >= 1 /\ last.attempts = Size + 1

\* C20: a deletion by name on a registered session, matched or not, leaves
\* the key registered to the same session, every pending timer as it was,
\* and the session's idle timer, last activity, creation time, device
\* identity and urls as they were; every other session is unchanged.
DeleteKeepsSession ==
  [][\A name \in GateNames :
       (DeleteFile(FirstKey, name) /\ has(keys, FirstKey)) =>
         LET sid == keys[FirstKey] IN
         /\ last'.status = 200
         /\ keys' = keys /\ timers' = timers
         /\ Len(sessions') = Len(sessions)
         /\ \A i \in 1..Len(sessions) : i # sid => sessions'[i] = sessions[i]
         /\ sessions'[sid].timer = sessions[sid].timer
         /\ sessions'[sid].alive = sessions[sid].alive
         /\ sessions'[sid].created = sessions[sid].created
         /\ sessions'[sid].agent = sessions[sid].agent
         /\ sessions'[sid].urls = sessions[sid].urls]_vars

\* C20 witness: the only file of a session was deleted, some time after
\* the session's last renewal; the session is registered with no file and
\* its idle timer pending.
LastFileDeleted ==
  /\ last.op = "delete" /\ last.status = 200 /\ last.name = Book.originalname
  /\ has(keys, FirstKey)
  /\ FilesOf(FirstKey) = << >>
  /\ \E p \in unlinked : p \notin disk
  /\ now > sessions[keys[FirstKey]].alive
  /\ sessions[keys[FirstKey]].timer \in timers

\* C21: no FileRecord of a registered session has a storage path that has
\* been unlinked.
RecordsHaveArtifacts ==
  \A k \in DOMAIN keys : Paths(FilesOf(k)) \cap unlinked = { }
====
